---------------------------- MODULE Spec2Model ----------------------------
(***************************************************************************)
(* A2A web chat client: the streaming protocol client (lib/a2aClient.ts)   *)
(* and the conversation controller (the useChat hook).                     *)
(*                                                                         *)
(* Two state machines share this module, each under several initial        *)
(* conditions:                                                             *)
(*   StreamSpec  one stream opened by streamMessage: the transport hands   *)
(*               over the response body in chunks cut at arbitrary         *)
(*               character positions, the reader loop decodes them and     *)
(*               invokes the callbacks, which are recorded in `calls`.     *)
(*               SkipSpec, EventSpec and FramingSpec are the same machine  *)
(*               over bodies with a block to skip, over bodies of          *)
(*               well-framed events of every kind, and over bodies whose   *)
(*               data lines and line endings vary.                         *)
(*   Spec        the useChat controller: conversations, the active         *)
(*               conversation pointer, the loading flag and the turns in   *)
(*               flight, driven by user actions and network completions.   *)
(*               RestoredSpec is the controller over a store an earlier    *)
(*               session saved, with one text typed, one part list         *)
(*               answered and one failure per kind of request; ReloadSpec  *)
(*               is the controller from its                                *)
(*               construction over any saved store up to the first send.   *)
(*               LiveSpec is Spec with every request in flight fairly      *)
(*               completed by the network.                                 *)
(*               RevealSpec is Spec with a presentation layer that signals *)
(*               the end of every animation it runs.                       *)
(* Text is modelled as sequences of one-character strings.                 *)
(***************************************************************************)
EXTENDS Integers, Sequences, FiniteSets, TLC

\* ------------------------------------------------------------------ bounds
MaxSegs == 2     \* lines (each with its line ending) in a response body
MaxTurns == 2    \* turns accepted by send in one run
MaxParts == 2    \* parts a message accumulates before further parts are cut off
MaxConvs == 2    \* conversations in the store when send begins another one

\* ------------------------------------------------------------------ text
NULL == "null"
CR == "\r"
LF == "\n"
SP == " "

RECURSIVE Flatten(_)
\* The concatenation of a sequence of texts.
Flatten(ss) == IF ss = <<>> THEN <<>> ELSE Head(ss) \o Flatten(Tail(ss))

IsSpace(c) == c \in {SP, LF, CR, "\t"}

RECURSIVE TrimStart(_)
TrimStart(s) ==
  IF s # <<>> /\ IsSpace(Head(s)) THEN TrimStart(Tail(s)) ELSE s

RECURSIVE TrimEnd(_)
TrimEnd(s) ==
  IF s # <<>> /\ IsSpace(s[Len(s)]) THEN TrimEnd(SubSeq(s, 1, Len(s) - 1)) ELSE s

\* String.prototype.trim
Trim(s) == TrimEnd(TrimStart(s))

StartsWith(s, p) == Len(s) >= Len(p) /\ SubSeq(s, 1, Len(p)) = p

\* String.prototype.slice(n)
Slice(s, n) == SubSeq(s, n + 1, Len(s))

\* replace(/\r\n/g, '\n'): every CR that an LF follows is dropped.
ReplaceCRLF(s) ==
  SelectSeq([i \in 1..Len(s) |->
               IF s[i] = CR /\ i < Len(s) /\ s[i + 1] = LF THEN "" ELSE s[i]],
            LAMBDA c : c # "")

\* replace(/\r/g, '\n')
ReplaceCR(s) == [i \in 1..Len(s) |-> IF s[i] = CR THEN LF ELSE s[i]]

\* The places of s where sep occurs.
Occurrences(s, sep) ==
  {i \in 1..(Len(s) - Len(sep) + 1) : SubSeq(s, i, i + Len(sep) - 1) = sep}

RECURSIVE Split(_, _)
\* String.prototype.split(sep) for a non-empty separator: the pieces between
\* the occurrences of sep, found left to right without overlap.
Split(s, sep) ==
  LET occ == Occurrences(s, sep)
      first == CHOOSE i \in occ : \A j \in occ : i <= j
  IN  IF occ = {} THEN <<s>>
      ELSE <<SubSeq(s, 1, first - 1)>> \o Split(Slice(s, first + Len(sep) - 1), sep)

RECURSIVE Join(_, _)
\* Array.prototype.join(sep)
Join(ss, sep) ==
  IF ss = <<>> THEN <<>>
  ELSE IF Len(ss) = 1 THEN ss[1]
  ELSE ss[1] \o sep \o Join(Tail(ss), sep)

\* ------------------------------------------------------------------ parts
TextPart(t) == [kind |-> "text", text |-> t]
DataPart == [kind |-> "data", text |-> <<>>]

IsTextPart(p) == p.kind = "text"

\* The texts of a list of text parts.
Texts(parts) == [i \in 1..Len(parts) |-> parts[i].text]

\* partsToText: the newline-joined text of the text parts, in order.
partsToText(parts) == Join(Texts(SelectSeq(parts, IsTextPart)), <<LF>>)

\* ------------------------------------------------------------------ JSON
\* A decoded JSON object, reduced to the members the client reads.  A member
\* that is absent is NULL (or the empty sequence for a part list).
\*   jsonrpc, result    the JSON-RPC envelope (hasResult: result is an object)
\*   kind, state        event kind and status.state
\*   msgParts           status.message.parts
\*   artParts           artifact.parts
\*   parts              parts
\*   contextId          contextId
Obj(kind, state, msgParts, artParts, parts, ctx) ==
  [kind |-> kind, state |-> state, msgParts |-> msgParts, artParts |-> artParts,
   parts |-> parts, contextId |-> ctx]

NoObj == Obj(NULL, NULL, <<>>, <<>>, <<>>, NULL)

Bare(o) == [jsonrpc |-> NULL, hasResult |-> FALSE, result |-> NoObj, self |-> o]
Enveloped(o) == [jsonrpc |-> "2.0", hasResult |-> TRUE, result |-> o, self |-> NoObj]

PartH == TextPart(<<"H">>)

\* The JSON documents that occur on the wire, each written "{" b "}" where
\* the one character b stands for the members of the object.
DocBodies == {"W", "P"}

DocOf(b) ==
  CASE b = "W" -> Bare(Obj("status-update", "working", <<>>, <<>>, <<>>, NULL))
    [] b = "P" -> Enveloped(Obj("artifact-update", NULL, <<>>, <<PartH>>, <<>>, "c1"))

\* Documents written "{" e k c "}", one character for each thing the client
\* looks at:
\*   e   "b" the event itself, "j" the event as the result of a JSON-RPC 2.0
\*       envelope
\*   k   the event: status-update in state working without ("W") and with
\*       ("M") message parts, submitted ("S"), completed with message parts
\*       ("C"), canceled ("X"), failed ("F"); artifact-update with ("A") and
\*       without ("a") parts; message with ("G") and without ("g") parts; a
\*       kind the client does not know, with parts ("U")
\*   c   the event's contextId: none ("0"), "c1" ("1"), "c2" ("2")
Envelopes == {"b", "j"}
Shapes == {"W", "M", "S", "C", "X", "F", "A", "a", "G", "g", "U"}
Contexts == {"0", "1", "2"}

ContextIdOf(c) == CASE c = "0" -> NULL [] c = "1" -> "c1" [] c = "2" -> "c2"

ShapeEvent(k, ctx) ==
  CASE k = "W" -> Obj("status-update", "working", <<>>, <<>>, <<>>, ctx)
    [] k = "M" -> Obj("status-update", "working", <<PartH>>, <<>>, <<>>, ctx)
    [] k = "S" -> Obj("status-update", "submitted", <<>>, <<>>, <<>>, ctx)
    [] k = "C" -> Obj("status-update", "completed", <<PartH>>, <<>>, <<>>, ctx)
    [] k = "X" -> Obj("status-update", "canceled", <<>>, <<>>, <<>>, ctx)
    [] k = "F" -> Obj("status-update", "failed", <<>>, <<>>, <<>>, ctx)
    [] k = "A" -> Obj("artifact-update", NULL, <<>>, <<PartH>>, <<>>, ctx)
    [] k = "a" -> Obj("artifact-update", NULL, <<>>, <<>>, <<>>, ctx)
    [] k = "G" -> Obj("message", NULL, <<>>, <<>>, <<PartH>>, ctx)
    [] k = "g" -> Obj("message", NULL, <<>>, <<>>, <<>>, ctx)
    [] k = "U" -> Obj("task", NULL, <<>>, <<>>, <<PartH>>, ctx)

Wrap(e, o) == IF e = "j" THEN Enveloped(o) ELSE Bare(o)

IsJsonSpace(c) == c \in {SP, LF, CR, "\t"}
NotJsonSpace(c) == ~IsJsonSpace(c)

\* JSON.parse: white space between tokens is insignificant; anything that is
\* not one complete document is a syntax error.
JSONParse(raw) ==
  LET s == SelectSeq(raw, NotJsonSpace)
  IN  IF Len(s) = 3 /\ s[1] = "{" /\ s[3] = "}" /\ s[2] \in DocBodies
      THEN [ok |-> TRUE, value |-> DocOf(s[2])]
      ELSE IF /\ Len(s) = 5 /\ s[1] = "{" /\ s[5] = "}"
              /\ s[2] \in Envelopes /\ s[3] \in Shapes /\ s[4] \in Contexts
      THEN [ok |-> TRUE, value |-> Wrap(s[2], ShapeEvent(s[3], ContextIdOf(s[4])))]
      ELSE [ok |-> FALSE, value |-> Bare(NoObj)]

\* The envelope test left out: the event is taken to be the payload itself.
UnwrapNever(parsed) == parsed.self

\* The un-enveloped event: the nested result when the payload marks itself
\* as JSON-RPC 2.0 and carries a result object, else the payload itself.
Unwrap(parsed) ==
  IF parsed.jsonrpc = "2.0" /\ parsed.hasResult THEN parsed.result ELSE parsed.self

\* ------------------------------------------------------------------ callbacks
\* One invocation of a callback: its argument (parts for onPart, the context
\* id for onDone, the message for onError) and the block it was decoded from.
Call(cb, parts, arg, blk) == [cb |-> cb, parts |-> parts, arg |-> arg, blk |-> blk]

\* dispatchSseEvent without the test of the state of a status-update.
dispatchSseEventAnyState(raw, blk) ==
  LET event == Unwrap(raw)
      kind == event.kind
  IN  IF kind = "status-update"
      THEN IF Len(event.msgParts) > 0
           THEN <<Call("onPart", event.msgParts, NULL, blk)>>
           ELSE <<Call("onWorking", <<>>, NULL, blk)>>
      ELSE IF kind = "artifact-update"
      THEN IF Len(event.artParts) > 0
           THEN <<Call("onPart", event.artParts, NULL, blk)>>
           ELSE <<>>
      ELSE IF kind = "message"
      THEN IF Len(event.parts) > 0
           THEN <<Call("onPart", event.parts, NULL, blk)>>
           ELSE <<>>
      ELSE <<>>

\* dispatchSseEvent: the callbacks one decoded payload causes (none or one).
dispatchSseEvent(raw, blk) ==
  LET event == Unwrap(raw)
      kind == event.kind
  IN  IF kind = "status-update"
      THEN IF event.state = "working"
           THEN IF Len(event.msgParts) > 0
                THEN <<Call("onPart", event.msgParts, NULL, blk)>>
                ELSE <<Call("onWorking", <<>>, NULL, blk)>>
           ELSE <<>>
      ELSE IF kind = "artifact-update"
      THEN IF Len(event.artParts) > 0
           THEN <<Call("onPart", event.artParts, NULL, blk)>>
           ELSE <<>>
      ELSE IF kind = "message"
      THEN IF Len(event.parts) > 0
           THEN <<Call("onPart", event.parts, NULL, blk)>>
           ELSE <<>>
      ELSE <<>>

\* ------------------------------------------------------------------ decoder
DataPrefix == <<"d", "a", "t", "a", ":", SP>>
Sentinel == <<"[", "D", "O", "N", "E", "]">>

IsDataLine(line) == StartsWith(line, DataPrefix)

\* dataLines: what follows the prefix on each data line of a block.
DataLines(eventBlock) ==
  LET ls == SelectSeq(Split(eventBlock, <<LF>>), IsDataLine)
  IN  [i \in 1..Len(ls) |-> Slice(ls[i], 6)]

\* The payload text of one block: its data lines, joined and trimmed.
BlockRaw(eventBlock) == Trim(Join(DataLines(eventBlock), <<LF>>))

RECURSIVE ProcessEventsStopAtBad(_, _, _)
\* The loop of processBuffer leaving the loop, instead of going on with the
\* next block, at a payload that does not parse.
ProcessEventsStopAtBad(events, isAborted, st) ==
  IF events = <<>> THEN st
  ELSE
    LET eventBlock == Head(events)
        rest == Tail(events)
        seen == [st EXCEPT !.nblocks = @ + 1]
        raw == BlockRaw(eventBlock)
        parsed == JSONParse(raw)
    IN  IF Trim(eventBlock) = <<>> THEN ProcessEventsStopAtBad(rest, isAborted, seen)
        ELSE IF raw = <<>> \/ raw = Sentinel
        THEN ProcessEventsStopAtBad(rest, isAborted, seen)
        ELSE IF ~parsed.ok THEN seen
        ELSE IF isAborted THEN seen
        ELSE
          LET cid == Unwrap(parsed.value).contextId
              fc == IF cid # NULL /\ st.firstContextId = NULL
                    THEN cid ELSE st.firstContextId
          IN  ProcessEventsStopAtBad(rest, isAborted,
                [seen EXCEPT !.firstContextId = fc,
                             !.calls = @ \o dispatchSseEvent(parsed.value, seen.nblocks)])

\* The decoder's state between blocks: the first context id seen, the
\* callbacks invoked so far, the number of blocks taken off the buffer.
RECURSIVE ProcessEvents(_, _, _)
\* The loop of processBuffer over the complete blocks.
ProcessEvents(events, isAborted, st) ==
  IF events = <<>> THEN st
  ELSE
    LET eventBlock == Head(events)
        rest == Tail(events)
        seen == [st EXCEPT !.nblocks = @ + 1]
        raw == BlockRaw(eventBlock)
        parsed == JSONParse(raw)
    IN  IF Trim(eventBlock) = <<>> THEN ProcessEvents(rest, isAborted, seen)
        ELSE IF raw = <<>> \/ raw = Sentinel THEN ProcessEvents(rest, isAborted, seen)
        ELSE IF ~parsed.ok THEN ProcessEvents(rest, isAborted, seen)
        ELSE IF isAborted THEN seen
        ELSE
          LET cid == Unwrap(parsed.value).contextId
              fc == IF cid # NULL /\ st.firstContextId = NULL
                    THEN cid ELSE st.firstContextId
          IN  ProcessEvents(rest, isAborted,
                [seen EXCEPT !.firstContextId = fc,
                             !.calls = @ \o dispatchSseEvent(parsed.value, seen.nblocks)])

\* processBuffer: normalise the line endings of the buffer, split it at
\* blank lines, keep the last piece as the new buffer and decode the others.
processBuffer(buf, isAborted, st) ==
  LET normalized == ReplaceCR(ReplaceCRLF(buf))
      events == Split(normalized, <<LF, LF>>)
      done == ProcessEvents(SubSeq(events, 1, Len(events) - 1), isAborted, st)
  IN  [buffer |-> events[Len(events)], st |-> done]


\* ------------------------------------------------------------------ state
VARIABLES
  \* streamMessage (one stream)
  body,            \* the response body the server sends, as characters
  pos,             \* how many of its characters the reader loop has taken
  pc,              \* where the async reader is: "fetch", "read" or "closed"
  net,             \* how the transport ended: "open", "eof" or the failure
  buffer,          \* let buffer
  firstContextId,  \* let firstContextId
  aborted,         \* let aborted
  nblocks,         \* blocks taken off the buffer so far
  calls,           \* the callbacks invoked so far, in order
  \* useChat
  conversations, activeConvId, selectedAgent, input, isLoading,
  cancelStreamRef, \* the turn whose cancel function the ref holds, 0 for null
  agentsRef,
  turns,           \* the closures of the accepted sends, in order
  storage          \* the item 'a2a-conversations' of localStorage

streamVars == <<body, pos, pc, net, buffer, firstContextId, aborted, nblocks, calls>>
chatVars == <<conversations, activeConvId, selectedAgent, input, isLoading,
              cancelStreamRef, agentsRef, turns, storage>>
vars == <<streamVars, chatVars>>

\* ------------------------------------------------------------------ streamMessage
Doc(b) == <<"{", b, "}">>

\* The lines a response body is made of, and their line endings.
Lines == {DataPrefix \o Doc("W"), DataPrefix \o Doc("P")}
Terms == {<<LF>>, <<CR, LF>>, <<CR, LF, CR, LF>>}
Segs == {l \o t : l \in Lines, t \in Terms}
Bodies == {Flatten(ss) : ss \in UNION {[1..n -> Segs] : n \in 0..MaxSegs}}

ErrFetch == "Failed to fetch"
ErrHttp == "HTTP 500"
ErrNoBody == "No response body"
ErrRead == "network error"

StartFailures == {ErrFetch, ErrHttp, ErrNoBody}

\* Response bodies of three blocks, each ended by a blank line: a block the
\* decoder is to skip (empty, without a data line, the sentinel, a payload
\* that is not JSON) between two blocks that carry an event.
BlockEnds == {<<LF, LF>>, <<CR, LF, CR, LF>>}
SkippedBlocks == {<<>>, <<":", "k">>, DataPrefix \o Sentinel, DataPrefix \o <<"{">>}
SkipBody(v1, s, v2, e) == v1 \o e \o s \o e \o v2 \o e
SkipBodies ==
  {SkipBody(v1, s, v2, e) : v1 \in Lines, v2 \in Lines, s \in SkippedBlocks, e \in BlockEnds}

\* Response bodies of well-framed blocks, one event each: one block with any
\* of the events, bare or enveloped, or two blocks whose events carry
\* context ids or none.
Doc5(e, k, c) == <<"{", e, k, c, "}">>
Block(d) == DataPrefix \o d \o <<LF, LF>>
EventDocs == {Doc5(e, k, c) : e \in Envelopes, k \in Shapes, c \in Contexts}
ContextDocs == {Doc5(e, k, c) : e \in Envelopes, k \in {"W", "U"}, c \in Contexts}
EventBodies ==
  {Block(d) : d \in EventDocs} \cup {Block(d1) \o Block(d2) : d1, d2 \in ContextDocs}

\* Response bodies of one block of one or two lines, every line with the
\* same line ending and a blank line after the last: data lines with and
\* without a space after the colon, holding a whole document or a piece of
\* one, and a comment line.
DataColon == <<"d", "a", "t", "a", ":">>
FrameLines ==
  {DataPrefix \o Doc("W"), DataColon \o Doc("W"),
   DataPrefix \o <<"{">>, DataPrefix \o <<"W", "}">>, DataColon \o <<"W", "}">>,
   <<":", "k">>}
LineEnds == {<<LF>>, <<CR, LF>>, <<CR>>}
FramedBody(ls, e) == Flatten([i \in 1..Len(ls) |-> ls[i] \o e]) \o e
LineLists == UNION {[1..n -> FrameLines] : n \in 1..2}
FramedBodies == {FramedBody(ls, e) : ls \in LineLists, e \in LineEnds}

StreamIdle ==
  /\ body = <<>> /\ pos = 0 /\ pc = "closed" /\ net = "open"
  /\ buffer = <<>> /\ firstContextId = NULL /\ aborted = FALSE
  /\ nblocks = 0 /\ calls = <<>>

\* streamMessage has been called: the request is on its way.
StreamInit ==
  /\ body \in Bodies
  /\ pos = 0
  /\ pc = "fetch"
  /\ net = "open"
  /\ buffer = <<>>
  /\ firstContextId = NULL
  /\ aborted = FALSE
  /\ nblocks = 0
  /\ calls = <<>>

\* streamMessage has been called for a response with a block to skip.
StreamInitSkips ==
  /\ body \in SkipBodies
  /\ pos = 0
  /\ pc = "fetch"
  /\ net = "open"
  /\ buffer = <<>>
  /\ firstContextId = NULL
  /\ aborted = FALSE
  /\ nblocks = 0
  /\ calls = <<>>

\* streamMessage has been called for a response of well-framed events.
StreamInitEvents ==
  /\ body \in EventBodies
  /\ pos = 0
  /\ pc = "fetch"
  /\ net = "open"
  /\ buffer = <<>>
  /\ firstContextId = NULL
  /\ aborted = FALSE
  /\ nblocks = 0
  /\ calls = <<>>

\* streamMessage has been called for a response of one framed block.
StreamInitFramed ==
  /\ body \in FramedBodies
  /\ pos = 0
  /\ pc = "fetch"
  /\ net = "open"
  /\ buffer = <<>>
  /\ firstContextId = NULL
  /\ aborted = FALSE
  /\ nblocks = 0
  /\ calls = <<>>

DecoderState == [firstContextId |-> firstContextId, calls |-> calls, nblocks |-> nblocks]

\* fetch resolves with a 2xx response that has a body; the first read is issued.
FetchOk ==
  /\ pc = "fetch"
  /\ pc' = "read"
  /\ UNCHANGED <<body, pos, net, buffer, firstContextId, aborted, nblocks, calls>>

\* Catch without the check of the aborted flag: the rejection an abort causes
\* is reported like any other.
CatchIgnoringAbort(cs, isAborted, msg, blk) ==
  Append(cs, Call("onError", <<>>, msg, blk))

\* Catch that swallows the error.
CatchSilent(cs, isAborted, msg, blk) == cs

\* The catch clause: nothing after an abort, else onError.
Catch(cs, isAborted, msg, blk) ==
  IF isAborted THEN cs
  ELSE Append(cs, Call("onError", <<>>, msg, blk))

\* fetch rejects, or answers with a non-2xx status or without a body.
FetchFail(msg) ==
  /\ pc = "fetch"
  /\ pc' = "closed"
  /\ net' = msg
  /\ calls' = Catch(calls, aborted, msg, nblocks)
  /\ UNCHANGED <<body, pos, buffer, firstContextId, aborted, nblocks>>

\* What the loop does with a chunk that reader.read() delivered, from
\* decoder state st and buffer buf: nothing after an abort, else the chunk is
\* added to the buffer and the buffer processed.
AfterChunk(buf, st, isAborted, chunk) ==
  IF isAborted
  THEN [pc |-> "closed", buffer |-> buf, st |-> st]
  ELSE LET r == processBuffer(buf \o chunk, isAborted, st)
       IN  [pc |-> "read", buffer |-> r.buffer, st |-> r.st]

\* reader.read() resolves with the next n characters of the body.
ReadChunk(n) ==
  /\ pc = "read"
  /\ pos + n <= Len(body)
  /\ LET r == AfterChunk(buffer, DecoderState, aborted, SubSeq(body, pos + 1, pos + n))
     IN  /\ pc' = r.pc
         /\ buffer' = r.buffer
         /\ firstContextId' = r.st.firstContextId
         /\ calls' = r.st.calls
         /\ nblocks' = r.st.nblocks
  /\ pos' = IF aborted THEN pos ELSE pos + n
  /\ UNCHANGED <<body, net, aborted>>

\* AfterEnd with onDone invoked before the remainder of the buffer is decoded.
AfterEndDoneFirst(buf, st, isAborted) ==
  IF isAborted
  THEN [buffer |-> buf, st |-> st]
  ELSE LET d == [st EXCEPT !.calls =
                   Append(@, Call("onDone", <<>>, st.firstContextId, st.nblocks))]
       IN  IF Trim(buf) # <<>>
           THEN processBuffer(buf \o <<LF, LF>>, isAborted, d)
           ELSE [buffer |-> buf, st |-> d]

\* What the loop does when reader.read() reports the end of the body: nothing
\* after an abort, else a non-blank remainder is decoded as a last block and
\* onDone is invoked.
AfterEnd(buf, st, isAborted) ==
  IF isAborted
  THEN [buffer |-> buf, st |-> st]
  ELSE LET r == IF Trim(buf) # <<>>
                THEN processBuffer(buf \o <<LF, LF>>, isAborted, st)
                ELSE [buffer |-> buf, st |-> st]
       IN  [buffer |-> r.buffer,
            st |-> [r.st EXCEPT !.calls =
                      Append(@, Call("onDone", <<>>, r.st.firstContextId, r.st.nblocks))]]

\* reader.read() resolves with done: the body has been delivered completely.
ReadDone ==
  /\ pc = "read"
  /\ pos = Len(body)
  /\ pc' = "closed"
  /\ net' = "eof"
  /\ LET r == AfterEnd(buffer, DecoderState, aborted)
     IN  /\ buffer' = r.buffer
         /\ firstContextId' = r.st.firstContextId
         /\ calls' = r.st.calls
         /\ nblocks' = r.st.nblocks
  /\ UNCHANGED <<body, pos, aborted>>

\* reader.read() rejects: the transport failed (or was aborted) while reading.
ReadFail ==
  /\ pc = "read"
  /\ pc' = "closed"
  /\ net' = ErrRead
  /\ calls' = Catch(calls, aborted, ErrRead, nblocks)
  /\ UNCHANGED <<body, pos, buffer, firstContextId, aborted, nblocks>>

\* The function streamMessage returned is called.
Cancel ==
  /\ ~aborted
  /\ aborted' = TRUE
  /\ UNCHANGED <<body, pos, pc, net, buffer, firstContextId, nblocks, calls>>

StreamNext ==
  \/ FetchOk /\ UNCHANGED chatVars
  \/ (\E msg \in StartFailures : FetchFail(msg)) /\ UNCHANGED chatVars
  \/ (\E n \in 1..(Len(body) - pos) : ReadChunk(n)) /\ UNCHANGED chatVars
  \/ ReadDone /\ UNCHANGED chatVars
  \/ ReadFail /\ UNCHANGED chatVars
  \/ Cancel /\ UNCHANGED chatVars


\* ------------------------------------------------------------------ useChat: data
\* Identifiers: uuidv4() gives an id no earlier call gave; the gateway gives
\* context ids of its own.  NoId is null.
NoId == <<>>
LocalId(n) == <<"local", n>>
UserMsgId(n) == <<"user", n>>
AgentMsgId(n) == <<"agent", n>>
GatewayIds == {<<"srv", 1>>, <<"srv", 2>>}

Undefined == <<"undefined">>

\* The agent directory the gateway serves: one agent that streams, one that
\* does not.
Agent(id, streaming) == [id |-> id, streaming |-> streaming]
NoAgent == Agent(NULL, FALSE)
Directory == <<Agent("alpha", TRUE), Agent("beta", FALSE)>>

\* What the user may type.
Inputs == {<<SP>>, <<SP, "h", SP>>}

\* Part lists an event or a response may carry.
PartLists == {<<PartH>>, <<TextPart(<<>>)>>, <<DataPart>>}

ErrEmpty == "Empty result"

\* The text of an Error's message.
MessageText(msg) ==
  CASE msg = ErrHttp -> <<"H", "T", "T", "P", SP, "5", "0", "0">>
    [] msg = ErrFetch -> <<"F", "a", "i", "l">>
    [] msg = ErrNoBody -> <<"N", "o", SP, "b", "o", "d", "y">>
    [] msg = ErrRead -> <<"n", "e", "t">>
    [] msg = ErrEmpty -> <<"E", "m", "p", "t", "y">>

ErrorPrefix == <<"E", "r", "r", "o", "r", ":", SP>>

Message(id, role, parts, displayText, status) ==
  [id |-> id, role |-> role, parts |-> parts, displayText |-> displayText,
   status |-> status]

Conversation(id, agentId, messages) ==
  [id |-> id, agentId |-> agentId, messages |-> messages]

Ids(convs) == [i \in 1..Len(convs) |-> convs[i].id]
HasConv(convs, id) == \E i \in 1..Len(convs) : convs[i].id = id

\* Array.prototype.find on the conversations: the first with this id.
FindConv(convs, id) ==
  convs[CHOOSE i \in 1..Len(convs) :
          /\ convs[i].id = id
          /\ \A j \in 1..(i - 1) : convs[j].id # id]

\* ------------------------------------------------------------------ useChat: persistence
\* The item of localStorage: absent, or the JSON text of the conversations,
\* held as the value JSON.parse gives for it.
NoItem == [present |-> FALSE, convs |-> <<>>]

\* JSON.stringify of a message: a member that is undefined (the display text
\* of a user message) is left out.
StoredMessage(m) ==
  IF m.displayText = Undefined
  THEN [id |-> m.id, role |-> m.role, parts |-> m.parts, status |-> m.status]
  ELSE [id |-> m.id, role |-> m.role, parts |-> m.parts, status |-> m.status,
        displayText |-> m.displayText]

\* saveConversations: the item after localStorage.setItem.
saveConversations(convs) ==
  [present |-> TRUE,
   convs |-> [i \in 1..Len(convs) |->
                [id |-> convs[i].id, agentId |-> convs[i].agentId,
                 messages |-> [k \in 1..Len(convs[i].messages) |->
                                 StoredMessage(convs[i].messages[k])]]]]

\* A stored message as loadConversations spreads it, the status as stored.
SpreadStored(m, status) ==
  [id |-> m.id, role |-> m.role, parts |-> m.parts,
   displayText |-> IF "displayText" \in DOMAIN m THEN m.displayText ELSE Undefined,
   status |-> status]

\* loadConversations keeping every status as it was stored.
loadConversationsAsStored(item) ==
  IF ~item.present THEN <<>>
  ELSE [i \in 1..Len(item.convs) |->
          [id |-> item.convs[i].id, agentId |-> item.convs[i].agentId,
           messages |-> [k \in 1..Len(item.convs[i].messages) |->
                           SpreadStored(item.convs[i].messages[k],
                                        item.convs[i].messages[k].status)]]]

\* loadConversations: nothing when the item is absent, else the stored
\* conversations with the messages that were in flight set done.
loadConversations(item) ==
  IF ~item.present THEN <<>>
  ELSE [i \in 1..Len(item.convs) |->
          [id |-> item.convs[i].id, agentId |-> item.convs[i].agentId,
           messages |-> [k \in 1..Len(item.convs[i].messages) |->
                           SpreadStored(item.convs[i].messages[k],
                             IF item.convs[i].messages[k].status \in {"sending", "streaming"}
                             THEN "done" ELSE item.convs[i].messages[k].status)]]]

\* The effect that persists the conversations: it runs after a render in
\* which they have changed.
Persist ==
  storage' = IF conversations' = conversations THEN storage
             ELSE saveConversations(conversations')

\* The same effect running after the first render.
Mounted ==
  /\ storage # saveConversations(conversations)
  /\ storage' = saveConversations(conversations)

\* ------------------------------------------------------------------ useChat: store
\* { ...m, ...patch }: the message with the members of patch replaced.
Spread(m, patch) ==
  [f \in DOMAIN m |-> IF f \in DOMAIN patch THEN patch[f] ELSE m[f]]

\* updateMessage replacing the message in whatever conversation holds it.
updateMessageAnywhere(convs, convId, msgId, patch) ==
  [i \in 1..Len(convs) |->
     [convs[i] EXCEPT !.messages =
        [k \in 1..Len(convs[i].messages) |->
           IF convs[i].messages[k].id = msgId
           THEN Spread(convs[i].messages[k], patch)
           ELSE convs[i].messages[k]]]]

\* updateMessage: replace message msgId of conversation convId by the
\* updater's result; every updater of the hook spreads a patch over m.
updateMessage(convs, convId, msgId, patch) ==
  [i \in 1..Len(convs) |->
     IF convs[i].id # convId THEN convs[i]
     ELSE [convs[i] EXCEPT !.messages =
             [k \in 1..Len(convs[i].messages) |->
                IF convs[i].messages[k].id = msgId
                THEN Spread(convs[i].messages[k], patch)
                ELSE convs[i].messages[k]]]]

\* appendParts adding the text of the new parts to the display text instead
\* of recomputing it from the merged parts.
AppendToIncremental(m, newParts) ==
  [m EXCEPT !.parts = m.parts \o newParts,
            !.displayText = m.displayText \o partsToText(newParts),
            !.status = "streaming"]

\* What appendParts makes of the message it finds.
AppendTo(m, newParts) ==
  LET merged == m.parts \o newParts
      fullText == Join(Texts(SelectSeq(merged, IsTextPart)), <<LF>>)
  IN  [m EXCEPT !.parts = merged, !.displayText = fullText, !.status = "streaming"]

\* appendParts: add newParts to the message, recompute its display text,
\* set it streaming.
appendParts(convs, convId, msgId, newParts) ==
  [i \in 1..Len(convs) |->
     IF convs[i].id # convId THEN convs[i]
     ELSE [convs[i] EXCEPT !.messages =
             [k \in 1..Len(convs[i].messages) |->
                IF convs[i].messages[k].id = msgId
                THEN AppendTo(convs[i].messages[k], newParts)
                ELSE convs[i].messages[k]]]]

SetStatus(m, status) == [m EXCEPT !.status = status]

\* markDone
markDone(convs, convId, msgId) ==
  updateMessage(convs, convId, msgId, [status |-> "done"])

\* The error written with a display text that lacks the prefix of the part.
ErrorPatchBare(msg) ==
  [parts |-> <<TextPart(ErrorPrefix \o MessageText(msg))>>,
   displayText |-> MessageText(msg),
   status |-> "error"]

\* The error written on the agent message by onError and by the catch clause.
ErrorPatch(msg) ==
  [parts |-> <<TextPart(ErrorPrefix \o MessageText(msg))>>,
   displayText |-> ErrorPrefix \o MessageText(msg),
   status |-> "error"]

\* The result written on the agent message by a synchronous turn.
ResultPatch(parts) ==
  [parts |-> parts, displayText |-> partsToText(parts), status |-> "streaming"]


\* ------------------------------------------------------------------ useChat: turns
\* The closure of one accepted send.
\*   kind         "stream" or "sync"
\*   agentId      the agent the request is addressed to
\*   contextId    the context id sent with the request
\*   localConvId  let localConvId
\*   cur          currentConvIdRef.value
\*   msg          agentMsgId
\*   aborted      the stream's aborted flag
\*   phase        "flight" until the terminal callback or the end of the
\*                await, then "done" or "failed"
\*   nparts       onPart callbacks delivered so far
\*   superseded   openConversation, newConversation or selectAgent has run
\*                while the turn was in flight
Turn(kind, agentId, convId, msg) ==
  [kind |-> kind, agentId |-> agentId, contextId |-> convId, localConvId |-> convId,
   cur |-> convId, msg |-> msg, aborted |-> FALSE, phase |-> "flight", nparts |-> 0,
   superseded |-> FALSE]

TurnIds == 1..Len(turns)

\* A turn whose request has neither completed, failed nor been cancelled.
InFlight(t) == turns[t].phase = "flight" /\ ~turns[t].aborted

\* A stream that delivers callbacks whether it has been aborted or not.
DeliversAborted(t) == turns[t].kind = "stream" /\ turns[t].phase = "flight"

\* A stream still delivers callbacks: not ended, and not aborted (the reader
\* loop checks the flag before every callback).
Delivers(t) == turns[t].kind = "stream" /\ turns[t].phase = "flight" /\ ~turns[t].aborted

\* cancelStreamRef.current?.(): the turns after a navigation action.
CancelCurrent ==
  [t \in 1..Len(turns) |->
     [turns[t] EXCEPT
        !.aborted = IF t = cancelStreamRef THEN TRUE ELSE @,
        !.superseded = IF turns[t].phase = "flight" THEN TRUE ELSE @]]

\* The rename that also turns the renamed conversation's messages around.
RenameReversed(convs, oldId, newId) ==
  [i \in 1..Len(convs) |->
     IF convs[i].id = oldId
     THEN [convs[i] EXCEPT !.id = newId,
             !.messages = [k \in 1..Len(@) |-> @[Len(@) + 1 - k]]]
     ELSE convs[i]]

\* adoptContextId: the conversations, the active pointer and the ref after
\* adopting gateway context id g in turn t.
Rename(convs, oldId, newId) ==
  [i \in 1..Len(convs) |->
     IF convs[i].id = oldId THEN [convs[i] EXCEPT !.id = newId] ELSE convs[i]]

\* adoptContextId without the test for a null context id.
adoptContextIdOfNull(convs, active, cur, g) ==
  IF g = cur
  THEN [convs |-> convs, active |-> active, cur |-> cur]
  ELSE [convs |-> Rename(convs, cur, g), active |-> g, cur |-> g]

adoptContextId(convs, active, cur, g) ==
  IF g = NoId \/ g = cur
  THEN [convs |-> convs, active |-> active, cur |-> cur]
  ELSE [convs |-> Rename(convs, cur, g), active |-> g, cur |-> g]

\* finaliseAgentMsg: adopt, then mark the agent message done unless it has
\* display text.
Finalise(m) == IF m.displayText # <<>> THEN m ELSE SetStatus(m, "done")

finaliseAgentMsg(convs, active, turn, g) ==
  LET a == adoptContextId(convs, active, turn.cur, g)
      fin(c) == [c EXCEPT !.messages =
                   [k \in 1..Len(c.messages) |->
                      IF c.messages[k].id = turn.msg
                      THEN Finalise(c.messages[k]) ELSE c.messages[k]]]
  IN  [a EXCEPT !.convs =
         [i \in 1..Len(a.convs) |->
            IF a.convs[i].id # a.cur /\ a.convs[i].id # turn.localConvId
            THEN a.convs[i] ELSE fin(a.convs[i])]]

\* ------------------------------------------------------------------ useChat: actions
ChatIdle ==
  /\ conversations = <<>> /\ activeConvId = NoId /\ selectedAgent = NoAgent
  /\ input = <<>> /\ isLoading = FALSE /\ cancelStreamRef = 0
  /\ agentsRef = <<>> /\ turns = <<>> /\ storage = saveConversations(<<>>)

\* The hook has mounted: nothing stored but the empty list its first effect
\* saved, no agent list yet.
ChatInit == ChatIdle

\* What an earlier session has saved: one conversation, whose id is the
\* context id the gateway gave it then, whose agent is no longer in the
\* directory, and whose answer was being shown when the page was closed.
StoredId == <<"srv", 1>>
SavedStore ==
  <<Conversation(StoredId, "gamma",
      <<Message(UserMsgId(0), "user", <<TextPart(<<"h">>)>>, Undefined, "done"),
        Message(AgentMsgId(0), "agent", <<PartH>>, <<"H">>, "streaming")>>)>>

\* What loadConversations returns for it.
StoredStore == loadConversations(saveConversations(SavedStore))

\* The hook has mounted over the stored conversation and has saved it again.
ChatRestored ==
  /\ storage = saveConversations(StoredStore)
  /\ conversations = StoredStore /\ activeConvId = NoId /\ selectedAgent = NoAgent
  /\ input = <<>> /\ isLoading = FALSE /\ cancelStreamRef = 0
  /\ agentsRef = <<>> /\ turns = <<>>

\* The stores an earlier session may have saved: no conversation, or one or
\* two, each a user message and an agent message that was waiting, being
\* shown, done or failed when the page was closed.
SavedAgentMessage(n, status) ==
  CASE status = "sending" -> Message(AgentMsgId(n), "agent", <<>>, <<>>, "sending")
    [] status = "error" ->
         Message(AgentMsgId(n), "agent", <<TextPart(ErrorPrefix \o MessageText(ErrHttp))>>,
                 ErrorPrefix \o MessageText(ErrHttp), "error")
    [] OTHER -> Message(AgentMsgId(n), "agent", <<PartH, DataPart>>, <<"H">>, status)

SavedConversation(n, agentId, status) ==
  Conversation(<<"srv", n>>, agentId,
    <<Message(UserMsgId(n), "user", <<TextPart(<<"h">>)>>, Undefined, "done"),
      SavedAgentMessage(n, status)>>)

Statuses == {"sending", "streaming", "done", "error"}

Snapshots ==
  {<<>>}
  \cup {<<SavedConversation(1, "alpha", s)>> : s \in Statuses}
  \cup {<<SavedConversation(2, "beta", s2), SavedConversation(1, "gamma", s1)>> :
          s1 \in Statuses, s2 \in Statuses}

\* The hook has been constructed over what an earlier session saved, if
\* anything; its effects have not run yet.
ChatReloaded ==
  /\ storage \in {NoItem} \cup {saveConversations(st) : st \in Snapshots}
  /\ conversations = loadConversations(storage)
  /\ activeConvId = NoId /\ selectedAgent = NoAgent
  /\ input = <<>> /\ isLoading = FALSE /\ cancelStreamRef = 0
  /\ agentsRef = <<>> /\ turns = <<>>

\* fetchAgentCards resolved: the directory is kept and its first agent selected.
AgentsLoaded ==
  /\ agentsRef = <<>>
  /\ agentsRef' = Directory
  /\ selectedAgent' = Directory[1]
  /\ UNCHANGED <<conversations, activeConvId, input, isLoading, cancelStreamRef, turns>>

\* setInput
SetInput(text) ==
  /\ input # text
  /\ input' = text
  /\ UNCHANGED <<conversations, activeConvId, selectedAgent, isLoading,
                 cancelStreamRef, agentsRef, turns>>

\* The agent openConversation switches to: the conversation's agent when the
\* conversation and the agent are found, else the selection stays.
AgentOfConv(convId) ==
  IF HasConv(conversations, convId)
     /\ \E i \in 1..Len(agentsRef) : agentsRef[i].id = FindConv(conversations, convId).agentId
  THEN agentsRef[CHOOSE i \in 1..Len(agentsRef) :
                   agentsRef[i].id = FindConv(conversations, convId).agentId]
  ELSE selectedAgent

openConversation(convId) ==
  /\ turns' = CancelCurrent
  /\ activeConvId' = convId
  /\ input' = <<>>
  /\ isLoading' = FALSE
  /\ selectedAgent' = AgentOfConv(convId)
  /\ UNCHANGED <<conversations, cancelStreamRef, agentsRef>>

newConversation ==
  /\ turns' = CancelCurrent
  /\ activeConvId' = NoId
  /\ input' = <<>>
  /\ isLoading' = FALSE
  /\ UNCHANGED <<conversations, selectedAgent, cancelStreamRef, agentsRef>>

deleteConversation(convId) ==
  /\ conversations' = SelectSeq(conversations, LAMBDA c : c.id # convId)
  /\ activeConvId' = IF activeConvId = convId THEN NoId ELSE activeConvId
  /\ UNCHANGED <<selectedAgent, input, isLoading, cancelStreamRef, agentsRef, turns>>

selectAgent(agent) ==
  /\ turns' = CancelCurrent
  /\ selectedAgent' = agent
  /\ activeConvId' = NoId
  /\ input' = <<>>
  /\ isLoading' = FALSE
  /\ UNCHANGED <<conversations, cancelStreamRef, agentsRef>>


\* send, accepted: the optimistic insert and the request.
\* The guard of send without the test of isLoading.
AcceptedWhileLoading == Trim(input) # <<>> /\ selectedAgent # NoAgent

Accepted == Trim(input) # <<>> /\ selectedAgent # NoAgent /\ ~isLoading

SendAccepted ==
  LET n == Len(turns) + 1
      text == Trim(input)
      isNewConv == activeConvId = NoId
      localConvId == IF isNewConv THEN LocalId(n) ELSE activeConvId
      userMsg == Message(UserMsgId(n), "user", <<TextPart(text)>>, Undefined, "done")
      agentMsg == Message(AgentMsgId(n), "agent", <<>>, <<>>, "sending")
      kind == IF selectedAgent.streaming THEN "stream" ELSE "sync"
  IN  /\ input' = <<>>
      /\ isLoading' = TRUE
      /\ conversations' =
           IF isNewConv
           THEN <<Conversation(localConvId, selectedAgent.id, <<userMsg, agentMsg>>)>>
                \o conversations
           ELSE [i \in 1..Len(conversations) |->
                   IF conversations[i].id # localConvId THEN conversations[i]
                   ELSE [conversations[i] EXCEPT
                           !.messages = @ \o <<userMsg, agentMsg>>]]
      /\ activeConvId' = localConvId
      /\ turns' = Append(turns, Turn(kind, selectedAgent.id, localConvId, AgentMsgId(n)))
      /\ cancelStreamRef' = IF kind = "stream" THEN n ELSE cancelStreamRef
      /\ UNCHANGED <<selectedAgent, agentsRef>>

send ==
  IF Accepted
  THEN /\ Len(turns) < MaxTurns
       /\ activeConvId = NoId => Len(conversations) < MaxConvs
       /\ SendAccepted
  ELSE UNCHANGED <<conversations, activeConvId, selectedAgent, input, isLoading,
                  cancelStreamRef, agentsRef, turns>>

\* The stream of turn t invokes onWorking.
onWorking(t) ==
  /\ Delivers(t)
  /\ conversations' =
       updateMessage(conversations, turns[t].cur, turns[t].msg,
                     [status |-> "sending"])
  /\ UNCHANGED <<activeConvId, selectedAgent, input, isLoading, cancelStreamRef,
                 agentsRef, turns>>

\* The stream of turn t invokes onPart(parts).
onPart(t, parts) ==
  /\ Delivers(t)
  /\ turns[t].nparts < MaxParts
  /\ conversations' = appendParts(conversations, turns[t].cur, turns[t].msg, parts)
  /\ turns' = [turns EXCEPT ![t].nparts = @ + 1]
  /\ UNCHANGED <<activeConvId, selectedAgent, input, isLoading, cancelStreamRef,
                 agentsRef>>

\* The stream of turn t ends gracefully: onDone(g).
onDone(t, g) ==
  /\ Delivers(t)
  /\ LET r == finaliseAgentMsg(conversations, activeConvId, turns[t], g)
     IN  /\ conversations' = r.convs
         /\ activeConvId' = r.active
         /\ turns' = [turns EXCEPT ![t].cur = r.cur, ![t].phase = "done"]
  /\ isLoading' = FALSE
  /\ cancelStreamRef' = 0
  /\ UNCHANGED <<selectedAgent, input, agentsRef>>

\* The stream of turn t fails: onError(err).
onError(t, msg) ==
  /\ Delivers(t)
  /\ conversations' =
       updateMessage(conversations, turns[t].cur, turns[t].msg,
                     ErrorPatch(msg))
  /\ turns' = [turns EXCEPT ![t].phase = "failed"]
  /\ isLoading' = FALSE
  /\ cancelStreamRef' = 0
  /\ UNCHANGED <<activeConvId, selectedAgent, input, agentsRef>>

\* sendMessage of turn t resolves with parts and context id g.
SyncResolved(t, parts, g) ==
  /\ turns[t].kind = "sync" /\ turns[t].phase = "flight"
  /\ LET a == adoptContextId(conversations, activeConvId, turns[t].cur, g)
     IN  /\ conversations' =
              updateMessage(a.convs, a.cur, turns[t].msg,
                            ResultPatch(parts))
         /\ activeConvId' = a.active
         /\ turns' = [turns EXCEPT ![t].cur = a.cur, ![t].phase = "done"]
  /\ isLoading' = FALSE
  /\ UNCHANGED <<selectedAgent, input, cancelStreamRef, agentsRef>>

\* The rejection handled without the finally clause.
SyncRejectedKeepsLoading(t, msg) ==
  /\ turns[t].kind = "sync" /\ turns[t].phase = "flight"
  /\ conversations' =
       updateMessage(conversations, turns[t].cur, turns[t].msg,
                     ErrorPatch(msg))
  /\ turns' = [turns EXCEPT ![t].phase = "failed"]
  /\ UNCHANGED <<activeConvId, selectedAgent, input, isLoading, cancelStreamRef,
                 agentsRef>>

\* sendMessage of turn t rejects.
SyncRejected(t, msg) ==
  /\ turns[t].kind = "sync" /\ turns[t].phase = "flight"
  /\ conversations' =
       updateMessage(conversations, turns[t].cur, turns[t].msg,
                     ErrorPatch(msg))
  /\ turns' = [turns EXCEPT ![t].phase = "failed"]
  /\ isLoading' = FALSE
  /\ UNCHANGED <<activeConvId, selectedAgent, input, cancelStreamRef, agentsRef>>

\* The messages the presentation layer animates: those of the active
\* conversation that are streaming; it signals the end of the animation of a
\* non-empty text.
Animated ==
  IF HasConv(conversations, activeConvId)
  THEN {m \in {FindConv(conversations, activeConvId).messages[k] :
                 k \in 1..Len(FindConv(conversations, activeConvId).messages)} :
          m.role = "agent" /\ m.status = "streaming" /\ m.displayText # <<>>}
  ELSE {}

\* onTypingDone of a message bubble: markDone(activeConvId, msg.id).
TypingDone(msgId) ==
  /\ conversations' = markDone(conversations, activeConvId, msgId)
  /\ UNCHANGED <<activeConvId, selectedAgent, input, isLoading, cancelStreamRef,
                 agentsRef, turns>>

\* The context ids a gateway may answer turn t with: none, the one it was
\* sent, or one of its own.
Answers(t) == {NoId, turns[t].contextId} \cup GatewayIds

SyncFailures == {ErrHttp, ErrEmpty}
StreamFailures == {ErrHttp, ErrRead}

Next ==
  \/ AgentsLoaded /\ Persist /\ UNCHANGED streamVars
  \/ (\E text \in Inputs : SetInput(text)) /\ Persist /\ UNCHANGED streamVars
  \/ send /\ Persist /\ UNCHANGED streamVars
  \/ (\E c \in {conversations[i].id : i \in 1..Len(conversations)} :
        openConversation(c)) /\ Persist /\ UNCHANGED streamVars
  \/ newConversation /\ Persist /\ UNCHANGED streamVars
  \/ (\E c \in {conversations[i].id : i \in 1..Len(conversations)} :
        deleteConversation(c)) /\ Persist /\ UNCHANGED streamVars
  \/ (\E i \in 1..Len(agentsRef) : selectAgent(agentsRef[i])) /\ Persist /\ UNCHANGED streamVars
  \/ (\E t \in TurnIds : onWorking(t)) /\ Persist /\ UNCHANGED streamVars
  \/ (\E t \in TurnIds : \E parts \in PartLists : onPart(t, parts)) /\ Persist /\ UNCHANGED streamVars
  \/ (\E t \in TurnIds : \E g \in Answers(t) : onDone(t, g)) /\ Persist /\ UNCHANGED streamVars
  \/ (\E t \in TurnIds : \E msg \in StreamFailures : onError(t, msg)) /\ Persist /\ UNCHANGED streamVars
  \/ (\E t \in TurnIds : \E parts \in PartLists \cup {<<>>} : \E g \in Answers(t) :
        SyncResolved(t, parts, g)) /\ Persist /\ UNCHANGED streamVars
  \/ (\E t \in TurnIds : \E msg \in SyncFailures : SyncRejected(t, msg)) /\ Persist /\ UNCHANGED streamVars
  \/ (\E m \in Animated : TypingDone(m.id)) /\ Persist /\ UNCHANGED streamVars

\* The session over a restored store: the same handlers and completions as
\* Next, the user typing one text, answers carrying one part list and
\* requests failing in one way each; context ids are answered as in Next.
RestoredNext ==
  \/ AgentsLoaded /\ Persist /\ UNCHANGED streamVars
  \/ SetInput(<<SP, "h", SP>>) /\ Persist /\ UNCHANGED streamVars
  \/ send /\ Persist /\ UNCHANGED streamVars
  \/ (\E c \in {conversations[i].id : i \in 1..Len(conversations)} :
        openConversation(c)) /\ Persist /\ UNCHANGED streamVars
  \/ newConversation /\ Persist /\ UNCHANGED streamVars
  \/ (\E c \in {conversations[i].id : i \in 1..Len(conversations)} :
        deleteConversation(c)) /\ Persist /\ UNCHANGED streamVars
  \/ (\E i \in 1..Len(agentsRef) : selectAgent(agentsRef[i])) /\ Persist /\ UNCHANGED streamVars
  \/ (\E t \in TurnIds : onWorking(t)) /\ Persist /\ UNCHANGED streamVars
  \/ (\E t \in TurnIds : onPart(t, <<PartH>>)) /\ Persist /\ UNCHANGED streamVars
  \/ (\E t \in TurnIds : \E g \in Answers(t) : onDone(t, g)) /\ Persist /\ UNCHANGED streamVars
  \/ (\E t \in TurnIds : onError(t, ErrRead)) /\ Persist /\ UNCHANGED streamVars
  \/ (\E t \in TurnIds : \E g \in Answers(t) :
        SyncResolved(t, <<PartH>>, g)) /\ Persist /\ UNCHANGED streamVars
  \/ (\E t \in TurnIds : SyncRejected(t, ErrHttp)) /\ Persist /\ UNCHANGED streamVars
  \/ (\E m \in Animated : TypingDone(m.id)) /\ Persist /\ UNCHANGED streamVars

\* The session before the first send: what the user can do with the
\* conversations an earlier session left.
ReloadNext ==
  \/ Mounted /\ UNCHANGED <<streamVars, conversations, activeConvId, selectedAgent,
                            input, isLoading, cancelStreamRef, agentsRef, turns>>
  \/ AgentsLoaded /\ Persist /\ UNCHANGED streamVars
  \/ (\E text \in Inputs : SetInput(text)) /\ Persist /\ UNCHANGED streamVars
  \/ (\E c \in {conversations[i].id : i \in 1..Len(conversations)} :
        openConversation(c)) /\ Persist /\ UNCHANGED streamVars
  \/ newConversation /\ Persist /\ UNCHANGED streamVars
  \/ (\E c \in {conversations[i].id : i \in 1..Len(conversations)} :
        deleteConversation(c)) /\ Persist /\ UNCHANGED streamVars
  \/ (\E i \in 1..Len(agentsRef) : selectAgent(agentsRef[i])) /\ Persist /\ UNCHANGED streamVars

Init == StreamIdle /\ ChatInit
Spec == Init /\ [][Next]_vars

\* The request of turn t comes to its end: the step of onDone, onError,
\* SyncResolved or SyncRejected, the only ones that take a turn out of
\* flight (and the ones that may give it another conversation id).  A stream
\* that has been aborted invokes no callback any more.
Ends(t) ==
  /\ t \in TurnIds
  /\ turns[t].phase = "flight"
  /\ turns[t].kind = "sync" \/ ~turns[t].aborted
  /\ \E ph \in {"done", "failed"} : \E c \in {turns[t].cur} \cup GatewayIds :
       turns' = [turns EXCEPT ![t].phase = ph, ![t].cur = c]

\* The controller with a network that brings every request to an end.
LiveSpec == Init /\ [][Next]_vars /\ \A t \in 1..MaxTurns : WF_turns(Ends(t))

\* The presentation layer finishes revealing the text of a message it
\* animates and signals it: the store after markDone.
Reveals ==
  \E m \in Animated : conversations' = markDone(conversations, activeConvId, m.id)

\* The controller with a presentation layer that signals the end of every
\* animation it runs.
RevealSpec == Init /\ [][Next]_vars /\ WF_conversations(Reveals)

InitRestored == StreamIdle /\ ChatRestored
RestoredSpec == InitRestored /\ [][RestoredNext]_vars

InitReloaded == StreamIdle /\ ChatReloaded
ReloadSpec == InitReloaded /\ [][ReloadNext]_vars

InitStream == StreamInit /\ ChatIdle
StreamSpec == InitStream /\ [][StreamNext]_vars

InitSkips == StreamInitSkips /\ ChatIdle
SkipSpec == InitSkips /\ [][StreamNext]_vars

InitEvents == StreamInitEvents /\ ChatIdle
EventSpec == InitEvents /\ [][StreamNext]_vars

InitFramed == StreamInitFramed /\ ChatIdle
FramingSpec == InitFramed /\ [][StreamNext]_vars


\* ================================================================== claims

\* ------------------------------------------------------------------ C1
\* C1: at most one turn is in flight at any time: never more than one
\* accepted turn whose request has neither completed, failed nor been
\* cancelled.  (Stated as claimed; the synchronous path refutes it.)
C1_AtMostOneInFlight == Cardinality({t \in TurnIds : InFlight(t)}) <= 1

\* ------------------------------------------------------------------ C2
\* C2: turns never overlap: a turn that was in flight when openConversation,
\* newConversation or selectAgent ran changes neither the conversations, the
\* active pointer nor the loading flag when it ends, and every stream in
\* flight at such an action is cancelled by it.  (Stated as claimed.)
C2_NoOverlap ==
  [][\A t \in TurnIds :
       /\ turns[t].superseded /\ turns[t].kind = "stream" => turns[t].aborted
       /\ turns[t].superseded /\ turns[t].phase = "flight"
            /\ Len(turns') >= t /\ turns'[t].phase # "flight"
          => UNCHANGED <<conversations, activeConvId, isLoading>>]_vars

\* ------------------------------------------------------------------ C3
Terminal(c) == c.cb \in {"onDone", "onError"}

\* C3: once cancel has been called, no callback is invoked any more, whatever
\* the transport delivers afterwards.
C3_NoCallbackAfterCancel == [][aborted => calls' = calls]_vars

\* A stream cancelled after an onPart callback, with part of the body still to
\* come, whose next chunk was then read and dropped.
C3_Witness ==
  /\ aborted /\ pc = "closed" /\ net = "open"
  /\ pos < Len(body)
  /\ calls # <<>> /\ calls[Len(calls)].cb = "onPart"

\* ------------------------------------------------------------------ C4
TerminalCalls == {i \in 1..Len(calls) : Terminal(calls[i])}

\* C4: a stream that has not been cancelled has invoked no terminal callback
\* while it is open and exactly one once it has ended: onDone(firstContextId)
\* if the body ended gracefully, onError(the failure) if the request failed to
\* start or the transport failed while reading.
C4_ExactlyOneTerminal ==
  ~aborted =>
    /\ pc # "closed" => TerminalCalls = {}
    /\ pc = "closed" =>
         /\ Cardinality(TerminalCalls) = 1
         /\ net = "eof" =>
              /\ calls[Len(calls)].cb = "onDone"
              /\ calls[Len(calls)].arg = firstContextId
         /\ net # "eof" =>
              /\ calls[Len(calls)].cb = "onError"
              /\ calls[Len(calls)].arg = net

\* A stream that delivered a callback and then failed while reading.
C4_Witness ==
  /\ ~aborted /\ pc = "closed" /\ net = ErrRead
  /\ Len(calls) >= 2 /\ calls[Len(calls)].cb = "onError"

\* ------------------------------------------------------------------ C5
\* C5: onWorking and onPart are delivered in the order of the blocks they
\* were decoded from, and a terminal callback is the last callback.
C5_OrderedTerminalLast ==
  \A i, j \in 1..Len(calls) :
    i < j =>
      /\ ~Terminal(calls[i])
      /\ ~Terminal(calls[j]) => calls[i].blk < calls[j].blk
      /\ Terminal(calls[j]) => calls[i].blk <= calls[j].blk

\* A stream that ended after an onWorking and an onPart, the second decoded
\* from the remainder of the buffer at the end of the body.
C5_Witness ==
  /\ pc = "closed" /\ net = "eof" /\ Len(calls) = 3
  /\ calls[1].cb = "onWorking" /\ calls[2].cb = "onPart" /\ calls[3].cb = "onDone"
  /\ calls[2].blk = nblocks

\* ------------------------------------------------------------------ C6
Payload(c) == [cb |-> c.cb, parts |-> c.parts, arg |-> c.arg]
Payloads(cs) == [i \in 1..Len(cs) |-> Payload(cs[i])]

\* The callbacks of a body delivered as one chunk and then ended.
WholeCalls(b) ==
  LET st0 == [firstContextId |-> NULL, calls |-> <<>>, nblocks |-> 0]
      r == AfterChunk(<<>>, st0, FALSE, b)
  IN  AfterEnd(r.buffer, r.st, FALSE).st.calls

\* C6: decoding is insensitive to chunk boundaries: a body that ended
\* gracefully has caused the callbacks (kind, payload, context id of onDone)
\* it causes when delivered as one chunk.  (Stated as claimed; a chunk
\* boundary between the CR and the LF of a line ending refutes it.)
C6_ChunkInsensitive ==
  (pc = "closed" /\ net = "eof" /\ ~aborted) =>
     Payloads(calls) = Payloads(WholeCalls(body))

\* ------------------------------------------------------------------ C7
\* The messages of the store, whatever conversation holds them.
AllMessages(convs) ==
  UNION {{convs[i].messages[k] : k \in 1..Len(convs[i].messages)} : i \in 1..Len(convs)}

AllowedStatusStep(a, b) ==
  \/ a = b
  \/ a = "sending" /\ b \in {"streaming", "done", "error"}
  \/ a = "streaming" /\ b \in {"done", "error"}

\* C7: the status of an agent message only moves sending -> streaming ->
\* done, sending -> done, or sending|streaming -> error.  (Stated as claimed.)
C7_StatusMachine ==
  [][\A m \in AllMessages(conversations) : \A n \in AllMessages(conversations') :
       m.role = "agent" /\ n.id = m.id => AllowedStatusStep(m.status, n.status)]_vars

\* ------------------------------------------------------------------ C8
\* The agent message of turn t, as a set (empty once its conversation is gone).
TurnMessage(convs, t) == {m \in AllMessages(convs) : m.id = turns[t].msg}

IsPrefix(a, b) == Len(a) <= Len(b) /\ SubSeq(b, 1, Len(a)) = a

\* C8: when a stream fails after onPart has appended content, the message
\* ends in status error with the appended parts and their text still there.
\* (Stated as claimed.)
C8_ErrorKeepsContent ==
  [][\A t \in TurnIds :
       turns[t].kind = "stream" /\ turns[t].phase = "flight"
         /\ turns'[t].phase = "failed"
       => \A m \in TurnMessage(conversations, t) : \A n \in TurnMessage(conversations', t) :
            m.parts # <<>> =>
              /\ n.status = "error"
              /\ IsPrefix(m.parts, n.parts)
              /\ IsPrefix(m.displayText, n.displayText)]_vars

\* ------------------------------------------------------------------ C9
\* C9: no two conversations have the same id.  (Stated as claimed.)
C9_UniqueIds ==
  \A i, j \in 1..Len(conversations) :
    i # j => conversations[i].id # conversations[j].id

\* ------------------------------------------------------------------ C10
\* C10: an adoption that would rename a conversation to the id of another
\* existing conversation, or that renames from an id no conversation has,
\* leaves the ids of the collection as they were.  (Stated as claimed.)
C10_CollidingRenameNotApplied ==
  [][\A t \in TurnIds :
       turns[t].phase = "flight" /\ turns'[t].cur # turns[t].cur
         /\ (HasConv(conversations, turns'[t].cur)
             \/ ~HasConv(conversations, turns[t].cur))
       => Ids(conversations') = Ids(conversations)]_vars

\* ------------------------------------------------------------------ C11
\* The step in which the stream of turn t ends with onDone and adopts a
\* context id other than the turn's own.
AdoptingDone(t) ==
  /\ turns[t].kind = "stream" /\ turns[t].phase = "flight"
  /\ turns'[t].phase = "done" /\ turns'[t].cur # turns[t].cur

\* A message but for its status.
Content(m) == [id |-> m.id, role |-> m.role, parts |-> m.parts,
               displayText |-> m.displayText]
Contents(ms) == [k \in 1..Len(ms) |-> Content(ms[k])]

\* The conversations that hold the agent message of turn t.
HoldsTurn(c, t) == \E k \in 1..Len(c.messages) : c.messages[k].id = turns[t].msg

\* C11: when a streamed turn ends with onDone carrying a context id other
\* than the local one, the turn's conversation has the canonical id
\* afterwards and the same messages in the same order (the status onDone
\* sets apart), every other conversation is unchanged, and the active
\* pointer is the canonical id.  (Stated as claimed.)
C11_AdoptionRenames ==
  [][\A t \in TurnIds :
       AdoptingDone(t) =>
         /\ Len(conversations') = Len(conversations)
         /\ \A i \in 1..Len(conversations) :
              IF HoldsTurn(conversations[i], t)
              THEN /\ conversations'[i].id = turns'[t].cur
                   /\ conversations'[i].agentId = conversations[i].agentId
                   /\ Contents(conversations'[i].messages)
                        = Contents(conversations[i].messages)
              ELSE conversations'[i] = conversations[i]
         /\ activeConvId' = turns'[t].cur]_vars

\* ------------------------------------------------------------------ C12
\* The store, the active pointer and the turn's reference as adoptContextId
\* takes and leaves them.
AdoptState(t) == [convs |-> conversations, active |-> activeConvId, cur |-> turns[t].cur]
Adopt(s, g) == adoptContextId(s.convs, s.active, s.cur, g)

\* C12: identifier adoption is idempotent: wherever a turn takes a step,
\* adopting a context id twice leaves the store, the active pointer and the reference as adopting
\* it once does; adopting null or the turn's current id changes nothing; and a
\* turn that has renamed its conversation does not rename it again.
C12_AdoptionIdempotent ==
  [][\A t \in TurnIds :
       turns'[t] # turns[t] =>
         /\ \A g \in Answers(t) \cup {turns[t].cur} :
              /\ Adopt(Adopt(AdoptState(t), g), g) = Adopt(AdoptState(t), g)
              /\ g \in {NoId, turns[t].cur} => Adopt(AdoptState(t), g) = AdoptState(t)
         /\ turns[t].cur # turns[t].localConvId => turns'[t].cur = turns[t].cur]_vars

\* A turn has adopted the gateway's context id, and another turn is in
\* flight that the gateway may answer with no id, its own id or that same id.
C12_Witness ==
  \E t, u \in TurnIds :
    /\ turns[t].phase = "done" /\ turns[t].cur \in GatewayIds
    /\ turns[t].cur # turns[t].localConvId
    /\ HasConv(conversations, turns[t].cur)
    /\ turns[u].phase = "flight" /\ HasConv(conversations, turns[u].cur)

\* ------------------------------------------------------------------ C13
\* Turn t issues a store mutation in this step: a part append, or the write
\* that ends it.  (An onWorking step leaves the turn as it is and is not
\* told apart from other steps here.)
Mutates(t) ==
  /\ turns[t].phase = "flight"
  /\ turns'[t].phase # "flight" \/ turns'[t].nparts # turns[t].nparts

\* What the mutation of turn t makes of its agent message m, seen in n.
Applied(t, m, n) ==
  /\ turns'[t].nparts # turns[t].nparts =>
       Len(n.parts) = Len(m.parts) + 1 /\ n.status = "streaming"
  /\ turns'[t].phase = "failed" => n.status = "error"
  /\ turns'[t].phase = "done" /\ turns[t].kind = "sync" => n.status = "streaming"
  /\ turns'[t].phase = "done" /\ turns[t].kind = "stream" /\ m.displayText = <<>> =>
       n.status = "done"

\* C13: every store mutation a turn issues (part append, finalisation, error
\* write, result write) is applied to the conversation that holds the turn's
\* agent message while that conversation exists, also after a rename; it is
\* not dropped, and no other conversation's messages change.  (Stated as
\* claimed.)
C13_MutationsFindConversation ==
  [][\A t \in TurnIds :
       Mutates(t) =>
         /\ Len(conversations') = Len(conversations)
         /\ \A i \in 1..Len(conversations) :
              IF HoldsTurn(conversations[i], t)
              THEN \A k \in 1..Len(conversations[i].messages) :
                     conversations[i].messages[k].id = turns[t].msg =>
                       Applied(t, conversations[i].messages[k],
                               conversations'[i].messages[k])
              ELSE conversations'[i].messages = conversations[i].messages]_vars

\* ------------------------------------------------------------------ C14
\* The texts of a list of text parts, one after the other.
Concat(parts) == Flatten(Texts(parts))

\* C14: when a stream that delivered a working status-update and then two
\* artifact-updates with one non-empty text part each ("Hel" and "lo" in the
\* scenario) ends, the agent message's display text is the texts of the parts
\* concatenated in arrival order ("Hello") and its status is streaming, to be
\* set done by markDone.  (Stated as claimed.)
C14_ConcatenatedText ==
  [][\A t \in TurnIds :
       /\ turns[t].kind = "stream" /\ turns[t].phase = "flight"
       /\ turns'[t].phase = "done" /\ turns[t].nparts = 2
       => \A m \in TurnMessage(conversations, t) : \A n \in TurnMessage(conversations', t) :
            m.parts = <<PartH, PartH>> /\ m.status = "streaming" =>
              /\ n.displayText = Concat(n.parts)
              /\ n.status = "streaming"]_vars

\* ------------------------------------------------------------------ C15
\* C15: appendParts is associative over part lists: for the agent message of
\* every streamed turn and all part lists A and B, what appendParts makes of
\* the message with A and then with B (parts, display text, status) is what
\* it makes of it with A ++ B.
C15_AppendAssociative ==
  \A t \in TurnIds :
    turns[t].kind = "stream" =>
      \A m \in TurnMessage(conversations, t) : \A A, B \in PartLists :
        AppendTo(AppendTo(m, A), B) = AppendTo(m, A \o B)

\* The agent message of a stream has received two part lists in two onPart
\* callbacks, text among them.
C15_Witness ==
  \E t \in TurnIds : \E m \in TurnMessage(conversations, t) :
    /\ turns[t].nparts = 2 /\ Len(m.parts) = 2
    /\ m.status = "streaming" /\ LF \in {m.displayText[k] : k \in 1..Len(m.displayText)}

\* ------------------------------------------------------------------ C16
\* send is rejected: the trimmed input is empty, no agent is selected, or
\* the loading flag says a turn is in flight.
Rejected == Trim(input) = <<>> \/ selectedAgent = NoAgent \/ isLoading

\* C16: a rejected send is a no-op: it issues no request (no turn begins
\* where send is rejected) and it leaves the conversations, the active
\* pointer, the loading flag and the input as they are.
C16_RejectedSendNoOp ==
  [][Rejected =>
       /\ Len(turns') = Len(turns)
       /\ send => UNCHANGED <<conversations, activeConvId, isLoading, input>>]_vars

\* A turn is in flight, an agent is selected and the user has typed a text:
\* send is rejected for the loading flag alone.
C16_Witness ==
  /\ isLoading /\ Trim(input) # <<>> /\ selectedAgent # NoAgent
  /\ \E t \in TurnIds : InFlight(t)

\* ------------------------------------------------------------------ C17
\* The synchronous call of turn t fails in this step.
SyncFails(t) ==
  turns[t].kind = "sync" /\ turns[t].phase = "flight" /\ turns'[t].phase = "failed"

\* C17: when the synchronous call of a turn fails, the turn's agent message
\* gets status error and content exactly "Error: <message>", no second
\* request is issued for the turn, and the turn ends (loading flag false);
\* the failure is applied once: a failed turn takes no further step.
\* (Stated as claimed.)
C17_SyncFailureRecorded ==
  [][\A t \in TurnIds :
       /\ SyncFails(t) =>
            /\ \A m \in TurnMessage(conversations, t) :
                 \E n \in TurnMessage(conversations', t) : \E msg \in SyncFailures :
                   /\ n.status = "error"
                   /\ n.displayText = ErrorPrefix \o MessageText(msg)
                   /\ n.parts = <<TextPart(ErrorPrefix \o MessageText(msg))>>
            /\ Len(turns') = Len(turns)
            /\ isLoading' = FALSE
       /\ turns[t].phase = "failed" => turns'[t] = turns[t]]_vars

\* ------------------------------------------------------------------ C18
\* The synchronous call of turn t, started with no active conversation,
\* succeeds in this step.
FreshSyncSucceeds(t) ==
  /\ turns[t].kind = "sync" /\ turns[t].phase = "flight" /\ turns'[t].phase = "done"
  /\ turns[t].localConvId = LocalId(t)

\* C18: a successful synchronous turn started with no active conversation
\* leaves the store with exactly one new conversation (while it has not been
\* deleted), whose id is the context id the server returned or else the
\* local id, and which holds exactly the user message (status done, the sent
\* text) and the agent message (the returned parts, their flattened text,
\* status streaming), in this order.  (Stated as claimed.)
C18_FreshSyncResult ==
  [][\A t \in TurnIds :
       FreshSyncSucceeds(t) /\ TurnMessage(conversations, t) # {} =>
         /\ Cardinality({i \in 1..Len(conversations') : HoldsTurn(conversations'[i], t)}) = 1
         /\ \A i \in 1..Len(conversations') :
              HoldsTurn(conversations'[i], t) =>
                /\ conversations'[i].id = turns'[t].cur
                /\ turns'[t].cur \in GatewayIds \cup {LocalId(t)}
                /\ LET ms == conversations'[i].messages
                   IN  /\ Len(ms) = 2
                       /\ ms[1].id = UserMsgId(t) /\ ms[1].role = "user"
                       /\ ms[1].status = "done"
                       /\ ms[1].parts \in {<<TextPart(Trim(text))>> : text \in Inputs}
                       /\ ms[2].id = AgentMsgId(t) /\ ms[2].role = "agent"
                       /\ ms[2].status = "streaming"
                       /\ ms[2].displayText = partsToText(ms[2].parts)]_vars

\* ------------------------------------------------------------------ C19
\* The stream of turn t ends with onDone in this step.
StreamDone(t) ==
  turns[t].kind = "stream" /\ turns[t].phase = "flight" /\ turns'[t].phase = "done"

\* C19: on onDone of a streamed turn the agent message is set done if it has
\* no display text at that moment and keeps its status if it has (markDone
\* sets it done later); either way the turn ends: the loading flag is false
\* and the cancel handle is cleared.  (Stated as claimed.)
C19_DoneIffNoText ==
  [][\A t \in TurnIds :
       StreamDone(t) =>
         /\ \A m \in TurnMessage(conversations, t) :
              \E n \in TurnMessage(conversations', t) :
                /\ m.displayText = <<>> => n.status = "done"
                /\ m.displayText # <<>> => n.status = m.status
                /\ Content(n) = Content(m)
         /\ isLoading' = FALSE
         /\ cancelStreamRef' = 0]_vars

\* ------------------------------------------------------------------ C20
\* What a line that carries an event is to cause.
EventOf(line) ==
  IF line = DataPrefix \o Doc("W")
  THEN [cb |-> "onWorking", parts |-> <<>>, arg |-> NULL]
  ELSE [cb |-> "onPart", parts |-> <<PartH>>, arg |-> NULL]

\* The context id onDone is to carry: that of the first event that has one.
ContextOf(v1, v2) ==
  IF DataPrefix \o Doc("P") \in {v1, v2} THEN "c1" ELSE NULL

\* C20: a block that is empty, has no data line, is the sentinel [DONE] or
\* whose payload is not valid JSON causes no callback and does not end the
\* stream: the events of the blocks before and after it are dispatched, and
\* the stream ends with onDone.
C20_SkippedBlocks ==
  (pc = "closed" /\ net = "eof" /\ ~aborted) =>
    \A v1 \in Lines, v2 \in Lines, s \in SkippedBlocks, e \in BlockEnds :
      body = SkipBody(v1, s, v2, e) =>
        Payloads(calls) =
          <<EventOf(v1), EventOf(v2),
            [cb |-> "onDone", parts |-> <<>>, arg |-> ContextOf(v1, v2)]>>

\* A body whose middle block is a payload that is not JSON has been decoded
\* to its end: the second callback comes from the third block.
C20_Witness ==
  /\ pc = "closed" /\ net = "eof" /\ ~aborted
  /\ \E v1 \in Lines, v2 \in Lines, e \in BlockEnds :
       body = SkipBody(v1, DataPrefix \o <<"{">>, v2, e)
  /\ Len(calls) = 3 /\ calls[2].blk >= 3 /\ calls[3].cb = "onDone"

\* ------------------------------------------------------------------ C21
\* The first member of a list of context ids that is one, else null.
RECURSIVE FirstContext(_)
FirstContext(cs) ==
  IF cs = <<>> THEN NULL
  ELSE IF Head(cs) # NULL THEN Head(cs) ELSE FirstContext(Tail(cs))

\* The context id a document carries in its event: at the top level of a
\* bare payload, inside the result of an enveloped one.
CarriedContext(d) == ContextIdOf(d[4])

ClaimedCallbacks(k) ==
  IF k = "W" THEN <<[cb |-> "onWorking", parts |-> <<>>, arg |-> NULL]>>
  ELSE IF k \in {"M", "A", "G"} THEN <<[cb |-> "onPart", parts |-> <<PartH>>, arg |-> NULL]>>
  ELSE <<>>

\* C25: the dispatch of a decoded payload depends only on its un-enveloped
\* event: an event wrapped in a JSON-RPC 2.0 envelope causes the callback
\* the bare event causes, which is onPart(parts) for a status-update in
\* state working with message parts, onWorking for one without,
\* onPart(parts) for an artifact-update or a message with parts, and none
\* for a status-update in another state, an event without parts and a kind
\* that is not recognised.
C25_DispatchByEvent ==
  (pc = "closed" /\ net = "eof" /\ ~aborted) =>
    \A e \in Envelopes, k \in Shapes, c \in Contexts :
      body = Block(Doc5(e, k, c)) =>
        /\ Payloads(SubSeq(calls, 1, Len(calls) - 1)) = ClaimedCallbacks(k)
        /\ calls[Len(calls)].cb = "onDone"
        /\ Payloads(dispatchSseEvent(Enveloped(ShapeEvent(k, ContextIdOf(c))), 1))
             = Payloads(dispatchSseEvent(Bare(ShapeEvent(k, ContextIdOf(c))), 1))

\* A stream has ended whose one event was an enveloped status-update in
\* state working with message parts: onPart, then onDone.
C25_Witness ==
  /\ pc = "closed" /\ net = "eof" /\ ~aborted
  /\ body = Block(Doc5("j", "M", "0"))
  /\ Len(calls) = 2 /\ calls[1].cb = "onPart" /\ calls[1].parts = <<PartH>>

\* ------------------------------------------------------------------ C22
\* Message n shows a failure.
ShowsFailure(n) == n.status = "error" \/ IsPrefix(ErrorPrefix, n.displayText)

\* C22: cancelling a turn by selectAgent, openConversation or newConversation
\* while its stream is in flight produces no failure state: the agent message
\* of a cancelled turn never has status error or an "Error: ..." text, and
\* the loading flag is false right after the action that cancels.
C22_CancelNoFailure ==
  [][\A t \in TurnIds :
       turns'[t].aborted =>
         /\ \A n \in TurnMessage(conversations', t) : ~ShowsFailure(n)
         /\ ~turns[t].aborted => isLoading' = FALSE]_vars

\* A stream was cancelled after it had delivered text, its request has not
\* ended, and a later turn has failed since.
C22_Witness ==
  \E t, u \in TurnIds :
    /\ turns[t].aborted /\ turns[t].phase = "flight" /\ turns[t].nparts > 0
    /\ \E m \in TurnMessage(conversations, t) : m.status = "streaming"
    /\ turns[u].phase = "failed"

\* ------------------------------------------------------------------ C23
InFlightStatus(status) == status \in {"sending", "streaming"}

\* Conversation c restored from its stored form d: same id and agent, the
\* same messages in the same order with the same ids, roles, parts and
\* texts, the statuses sending and streaming become done, the others kept.
RestoredFrom(c, d) ==
  /\ c.id = d.id /\ c.agentId = d.agentId
  /\ Len(c.messages) = Len(d.messages)
  /\ \A k \in 1..Len(d.messages) :
       LET m == c.messages[k]
           w == d.messages[k]
       IN  /\ m.id = w.id /\ m.role = w.role /\ m.parts = w.parts
           /\ "displayText" \in DOMAIN w => m.displayText = w.displayText
           /\ m.status = IF InFlightStatus(w.status) THEN "done" ELSE w.status

\* C23: restoring a saved snapshot yields the saved conversations in the
\* same order with the same ids, agents, messages and parts, every message
\* saved as sending or streaming being done and the others keeping their
\* status; the store the hook starts with is that restoration, so before a
\* first send no message is sending or streaming.
C23_RestoreNormalises ==
  /\ conversations = loadConversations(storage)
  /\ storage.present =>
       /\ Len(conversations) = Len(storage.convs)
       /\ \A i \in 1..Len(conversations) : RestoredFrom(conversations[i], storage.convs[i])
  /\ \A m \in AllMessages(conversations) : ~InFlightStatus(m.status)

\* The hook has started over two saved conversations, the answer of one
\* saved as sending and that of the other as error: the first is done, the
\* second still error.
C23_Witness ==
  /\ storage.present /\ Len(storage.convs) = 2 /\ Len(conversations) = 2
  /\ storage.convs[1].messages[2].status = "sending"
  /\ conversations[1].messages[2].status = "done"
  /\ storage.convs[2].messages[2].status = "error"
  /\ conversations[2].messages[2].status = "error"

\* ------------------------------------------------------------------ C24
\* C24: every accepted turn returns the controller to idle: if every request
\* comes to an end (resolves, rejects, or its stream ends or fails), the
\* loading flag set when a turn was accepted is cleared again, by the end of
\* the turn or by a navigation action that cancels it.
C24_EventuallyIdle == isLoading ~> ~isLoading

\* A turn was accepted, its request has come to its end, and the controller
\* is idle.
C24_Witness ==
  /\ ~isLoading
  /\ \E t \in TurnIds : turns[t].phase \in {"done", "failed"} /\ ~turns[t].superseded

\* ------------------------------------------------------------------ C26
\* What a line contributes to the payload of its block as claimed: what
\* follows "data:" and one space, if there is one, and nothing for a line
\* that does not begin with "data:".
IsClaimedDataLine(line) == StartsWith(line, DataColon)
ClaimedContent(line) ==
  IF StartsWith(line, DataPrefix) THEN Slice(line, 6) ELSE Slice(line, 5)

ClaimedPayload(ls) ==
  LET ds == SelectSeq(ls, IsClaimedDataLine)
  IN  Trim(Join([i \in 1..Len(ds) |-> ClaimedContent(ds[i])], <<LF>>))

ClaimedBlockCalls(ls) ==
  IF JSONParse(ClaimedPayload(ls)).ok
  THEN Payloads(dispatchSseEvent(JSONParse(ClaimedPayload(ls)).value, 1))
  ELSE <<>>

\* C26: a block is decoded by taking all its lines that begin with "data:",
\* with or without a space after the colon, joining what follows the prefix
\* with newlines in order and parsing the result as one JSON payload; other
\* lines contribute nothing, and CRLF and lone CR line endings count as LF.
\* (Stated as claimed.)
C26_DataLines ==
  (pc = "closed" /\ net = "eof" /\ ~aborted) =>
    \A ls \in LineLists, e \in LineEnds :
      body = FramedBody(ls, e) =>
        Payloads(calls) =
          ClaimedBlockCalls(ls) \o <<[cb |-> "onDone", parts |-> <<>>, arg |-> NULL]>>

\* ------------------------------------------------------------------ C27
\* The blocks that are complete in the first p characters of the body: the
\* blank-line separators of that text, its line endings taken as LF.
CompleteBlocks(p) ==
  Len(Split(ReplaceCR(ReplaceCRLF(SubSeq(body, 1, p))), <<LF, LF>>)) - 1

\* The callbacks of a buffered remainder decoded as one block.
RemainderCalls(buf) ==
  IF Trim(buf) # <<>> /\ JSONParse(BlockRaw(buf)).ok
  THEN Payloads(dispatchSseEvent(JSONParse(BlockRaw(buf)).value, 1))
  ELSE <<>>

\* C27: a block is not parsed or dispatched before it is complete: a chunk
\* that completes no block causes no callback, what was received after the
\* last blank line staying buffered; at the end of the stream a non-blank
\* remainder is decoded as one last block and dispatched before onDone, and
\* nothing of it remains buffered.  (Stated as claimed.)
C27_BlocksComplete ==
  [][~aborted /\ pc = "read" =>
       /\ (pc' = "read" /\ CompleteBlocks(pos') = CompleteBlocks(pos)) =>
            calls' = calls
       /\ (pc' = "closed" /\ net' = "eof") =>
            /\ Payloads(calls') =
                 Payloads(calls) \o RemainderCalls(buffer)
                   \o <<[cb |-> "onDone", parts |-> <<>>, arg |-> firstContextId']>>
            /\ Trim(buffer') = <<>>]_vars

\* ------------------------------------------------------------------ C28
RECURSIVE NewlineJoined(_)
\* The texts of the text parts of a part list, in order, a newline between
\* one and the next.
NewlineJoined(parts) ==
  IF parts = <<>> THEN <<>>
  ELSE IF Head(parts).kind # "text" THEN NewlineJoined(Tail(parts))
  ELSE IF \E i \in 2..Len(parts) : parts[i].kind = "text"
  THEN Head(parts).text \o <<LF>> \o NewlineJoined(Tail(parts))
  ELSE Head(parts).text

\* C28: in every reachable state the display text of every agent message is
\* the newline-joined text of the text parts of its parts, in order; and
\* what appendParts makes of the agent message of a stream with a part list
\* P has the old parts followed by P, the display text recomputed from all
\* of them, and status streaming.
C28_DisplayTextOfParts ==
  /\ \A m \in AllMessages(conversations) :
       m.role = "agent" => m.displayText = NewlineJoined(m.parts)
  /\ \A t \in TurnIds :
       turns[t].kind = "stream" =>
         \A m \in TurnMessage(conversations, t) : \A P \in PartLists :
           /\ AppendTo(m, P).parts = m.parts \o P
           /\ AppendTo(m, P).displayText = NewlineJoined(m.parts \o P)
           /\ AppendTo(m, P).status = "streaming"

\* An agent message has received two text parts in two appends and shows
\* their texts on two lines, while another agent message shows an error.
C28_Witness ==
  \E m, e \in AllMessages(conversations) :
    /\ m.role = "agent" /\ m.parts = <<PartH, PartH>>
    /\ m.displayText = <<"H", LF, "H">> /\ m.status = "streaming"
    /\ e.role = "agent" /\ e.status = "error"

\* ------------------------------------------------------------------ C29
\* The writes of turn t are addressed to something absent: no conversation
\* has the id the turn refers to and holds its agent message.
Unaddressed(t) ==
  ~\E i \in 1..Len(conversations) :
     conversations[i].id = turns[t].cur /\ HoldsTurn(conversations[i], t)

\* C29: store operations addressed to something absent are no-ops: the
\* append of a turn's two messages to a conversation id that no conversation
\* has, and appendParts, updateMessage and markDone for a conversation id or
\* a message id that is not in the store, leave the conversations as they
\* are.  Checked on the steps of a turn whose target is absent (a part, a
\* failure, a cancellation; a graceful end also adopts an id and is left
\* out) and on the step of a send whose active pointer names no conversation.
C29_AbsentTargetNoOp ==
  [][/\ \A t \in TurnIds :
          (turns'[t] # turns[t] /\ turns'[t].phase # "done" /\ Unaddressed(t)) =>
            /\ conversations' = conversations
            /\ \A P \in PartLists :
                 appendParts(conversations, turns[t].cur, turns[t].msg, P) = conversations
            /\ updateMessage(conversations, turns[t].cur, turns[t].msg,
                             [status |-> "sending"]) = conversations
            /\ markDone(conversations, turns[t].cur, turns[t].msg) = conversations
     /\ (Len(turns') > Len(turns) /\ activeConvId # NoId
           /\ ~HasConv(conversations, activeConvId)) =>
          conversations' = conversations]_vars

\* A turn ended with a context id of the gateway after its conversation had
\* been deleted; the next turn was sent into that id, which no conversation
\* has, and has failed: neither its messages nor its error are in the store.
C29_Witness ==
  \E t, u \in TurnIds :
    /\ t < u
    /\ turns[t].phase = "done" /\ turns[t].cur \in GatewayIds
    /\ TurnMessage(conversations, t) = {}
    /\ turns[u].localConvId = turns[t].cur /\ turns[u].phase = "failed"
    /\ TurnMessage(conversations, u) = {}
    /\ ~HasConv(conversations, turns[u].localConvId)

\* ------------------------------------------------------------------ C30
\* The two messages an accepted send is to add as turn n.
IsUserMessageOf(m, text) ==
  m.role = "user" /\ m.status = "done" /\ m.parts = <<TextPart(text)>>
IsPlaceholder(m) ==
  m.role = "agent" /\ m.status = "sending" /\ m.parts = <<>> /\ m.displayText = <<>>

\* Messages ms are the messages old followed by the user message and the
\* placeholder.
EndsWithTurn(ms, old, text) ==
  /\ Len(ms) = Len(old) + 2
  /\ SubSeq(ms, 1, Len(old)) = old
  /\ IsUserMessageOf(ms[Len(old) + 1], text)
  /\ IsPlaceholder(ms[Len(old) + 2])
  /\ ms[Len(old) + 1].id # ms[Len(old) + 2].id

\* C30: an accepted send adds exactly two messages, adjacent and in this
\* order, at the end of the turn's conversation: the user message (status
\* done, one text part, the trimmed input), then the agent placeholder
\* (status sending, no parts, empty display text).  The conversation is a
\* new one placed first in the store when none is active, and its id
\* becomes the active pointer; otherwise it is the active one.  No other
\* conversation is changed.  (Stated as claimed.)
C30_OptimisticInsert ==
  [][Len(turns') > Len(turns) =>
       IF activeConvId = NoId
       THEN /\ Len(conversations') = Len(conversations) + 1
            /\ SubSeq(conversations', 2, Len(conversations')) = conversations
            /\ EndsWithTurn(conversations'[1].messages, <<>>, Trim(input))
            /\ ~HasConv(conversations, conversations'[1].id)
            /\ activeConvId' = conversations'[1].id
       ELSE /\ Len(conversations') = Len(conversations)
            /\ activeConvId' = activeConvId
            /\ \E i \in 1..Len(conversations) :
                 /\ conversations[i].id = activeConvId
                 /\ conversations'[i].id = activeConvId
                 /\ EndsWithTurn(conversations'[i].messages,
                                 conversations[i].messages, Trim(input))
                 /\ \A j \in 1..Len(conversations) :
                      j # i => conversations'[j] = conversations[j]]_vars

\* ------------------------------------------------------------------ C31
MessageIds(c) == [k \in 1..Len(c.messages) |-> c.messages[k].id]

\* The conversations cs without the one at position i.
Without(cs, i) == SubSeq(cs, 1, i - 1) \o SubSeq(cs, i + 1, Len(cs))

RECURSIVE Survives(_, _)
\* Conversations after are what is left of before once some of them have
\* been removed: the same conversations, unchanged, in the same order.
Survives(after, before) ==
  IF after = <<>> THEN TRUE
  ELSE IF before = <<>> THEN FALSE
  ELSE IF Head(after) = Head(before) THEN Survives(Tail(after), Tail(before))
  ELSE Survives(after, Tail(before))

\* C31: message sequences are append-only.  In every step each
\* conversation that continues to exist (a new one is placed in front of
\* the others, a renamed one keeps its place) has its earlier sequence of
\* message ids as a prefix of its later one, and the conversations of a
\* step that removes some are the remaining ones unchanged; so the
\* sequence at any earlier state is a prefix of the sequence at any later
\* state: no message is removed, reordered or inserted before the end.
C31_AppendOnly ==
  [][conversations' # conversations =>
       IF Len(conversations') < Len(conversations)
       THEN Survives(conversations', conversations)
       ELSE \A i \in 1..Len(conversations) :
              IsPrefix(MessageIds(conversations[i]),
                       MessageIds(conversations'[i + Len(conversations')
                                                   - Len(conversations)]))]_vars

\* A conversation renamed to a gateway id that holds the messages of two
\* turns, the first of which has received content.
C31_Witness ==
  \E i \in 1..Len(conversations) :
    /\ conversations[i].id \in GatewayIds
    /\ MessageIds(conversations[i]) =
         <<UserMsgId(1), AgentMsgId(1), UserMsgId(2), AgentMsgId(2)>>
    /\ conversations[i].messages[2].parts # <<>>

\* ------------------------------------------------------------------ C32
\* C32: in every reachable state the active-conversation pointer is null or
\* the id of a conversation present in the store, also after the active
\* conversation has been deleted, and after a conversation was deleted
\* while a turn of it was in flight and the turn then completed and
\* adopted a server context id.  (Stated as claimed.)
C32_ActivePointerValid ==
  activeConvId = NoId \/ HasConv(conversations, activeConvId)

\* ------------------------------------------------------------------ C33
\* Turn t, started before a navigation (newConversation, openConversation
\* or selectAgent) that found it in flight, comes to its end in this step.
LateCompletion(t) ==
  /\ turns[t].superseded
  /\ turns[t].phase = "flight" /\ turns'[t].phase # "flight"

\* C33: after a navigation the active-conversation pointer keeps the value
\* the navigation gave it until the next user action or until a turn
\* started after the navigation changes it: the late completion of a turn
\* started before the navigation never changes the pointer.  (Stated as
\* claimed.)
C33_NavigationKeepsPointer ==
  [][\A t \in TurnIds : LateCompletion(t) => activeConvId' = activeConvId]_vars

\* ------------------------------------------------------------------ C34
\* The request of turn t has come to its end (a cancelled stream invokes no
\* callback and never leaves flight).
Ended(t) == t \in TurnIds /\ turns[t].phase \in {"done", "failed"}

\* The agent message of turn t, where it is still in the store, is done or
\* failed.
Settled(t) ==
  t \in TurnIds /\ \A m \in TurnMessage(conversations, t) : m.status \in {"done", "error"}

\* C34: the agent message of every turn that ended without cancellation
\* (onDone, onError, synchronous success or failure) eventually reaches
\* status done or error, given only that the presentation layer signals the
\* end of each animation of a non-empty text of a streaming message.
\* (Stated as claimed.)
C34_EventuallySettled == \A t \in 1..MaxTurns : Ended(t) ~> Settled(t)

\* ------------------------------------------------------------------ C35
\* C35: once a streamed turn has ended through onDone its agent message is
\* never in status sending, whatever the order of the onWorking and onPart
\* events before the end of the stream: the message is streaming or done.
\* (Stated as claimed.)
C35_NoSendingAfterDone ==
  \A t \in TurnIds :
    turns[t].kind = "stream" /\ turns[t].phase = "done" =>
      \A m \in TurnMessage(conversations, t) : m.status \in {"streaming", "done"}

\* ------------------------------------------------------------------ C36
\* C36: every turn appended to an existing conversation is sent to the
\* agent that owns the conversation: whenever send is accepted with an
\* active conversation, the agent the request is addressed to is the
\* agentId recorded on that conversation, whatever selectAgent,
\* openConversation and the agent directory have been (also for a reopened
\* conversation whose agent is not in the directory).  (Stated as claimed.)
C36_SentToOwningAgent ==
  [][Len(turns') > Len(turns) /\ activeConvId # NoId =>
       \A i \in 1..Len(conversations) :
         conversations[i].id = activeConvId =>
           turns'[Len(turns')].agentId = conversations[i].agentId]_vars

=============================================================================
